---------------------------- MODULE Spec2Model ----------------------------
(***************************************************************************)
(* Delta Viewer (src/delta_viewer.py): the preview decoders of             *)
(* FileViewers and the /view request handler that dispatches to them.      *)
(*                                                                         *)
(* Text is a sequence of one-character strings, bytes are a sequence of    *)
(* integers 0..255.  The third-party parsers the decoders call (pandas,    *)
(* pyarrow, fastavro, deltalake, json.loads, ElementTree) are not code of  *)
(* the repository: the content handed to a decoder carries the outcome of  *)
(* that parse (the parsed value, or the exception the parser raises), and  *)
(* everything the repository's code does with the outcome is computed.     *)
(***************************************************************************)
EXTENDS Integers, Sequences, FiniteSets, TLC

VARIABLES
    pc,        \* position of the caller / of the /view handler
    call,      \* the decoder invocation in progress: [fn, content, file_path, cap]
    result,    \* what the invocation returned
    file,      \* /view: the requested key
    fetch,     \* /view: what get_object_content did: "none", "ok" or "raised"
    invoked,   \* /view: the decoders the handler has invoked, in order
    page,      \* /view: the rendered template variables
    reqs       \* /view requests in flight at once: per request its position,
               \* key, the storage's answer, the gets it made, result and page

vars == <<pc, call, result, file, fetch, invoked, page, reqs>>

---------------------------------------------------------------------------
(* Bounds of the model. *)

\* largest row cap / byte cap tried, besides the program's own thresholds
MaxCap == 3
\* largest number of records in a tabular or Avro file, and of elements of a JSON array
MaxRecords == 3
\* /view requests the server holds at once
MaxRequests == 2

---------------------------------------------------------------------------
(* Python built-ins the decoders use. *)

Min(a, b) == IF a < b THEN a ELSE b

\* seq[:n] for n >= 0
Take(s, n) == SubSeq(s, 1, Min(n, Len(s)))

\* seq[a:b] for 0 <= a, b
Slice(s, a, b) == SubSeq(s, a + 1, Min(b, Len(s)))

\* ord(c) of the characters that occur in names
Ord(c) ==
    CASE c = " " -> 32
      [] c = "." -> 46
      [] c = "/" -> 47
      [] c = "@" -> 64
      [] c = "B" -> 66
      [] c = "C" -> 67
      [] c = "S" -> 83
      [] c = "V" -> 86
      [] c = "_" -> 95
      [] c = "a" -> 97
      [] c = "b" -> 98
      [] c = "c" -> 99
      [] c = "d" -> 100
      [] c = "e" -> 101
      [] c = "i" -> 105
      [] c = "k" -> 107
      [] c = "l" -> 108
      [] c = "m" -> 109
      [] c = "n" -> 110
      [] c = "o" -> 111
      [] c = "q" -> 113
      [] c = "r" -> 114
      [] c = "s" -> 115
      [] c = "t" -> 116
      [] c = "u" -> 117
      [] c = "v" -> 118
      [] c = "w" -> 119
      [] c = "x" -> 120
      [] c = "y" -> 121

\* str < str: lexicographic by code point, a proper prefix first
RECURSIVE StrLess(_, _)
StrLess(s, t) ==
    IF t = <<>> THEN FALSE
    ELSE IF s = <<>> THEN TRUE
    ELSE IF Ord(Head(s)) # Ord(Head(t)) THEN Ord(Head(s)) < Ord(Head(t))
    ELSE StrLess(Tail(s), Tail(t))

\* sorted(list(S)) for a set S of strings
RECURSIVE Sorted(_)
Sorted(S) ==
    IF S = {} THEN <<>>
    ELSE LET m == CHOOSE x \in S : \A y \in S \ {x} : StrLess(x, y)
         IN  <<m>> \o Sorted(S \ {m})

\* the elements of a sequence
Range(s) == {s[i] : i \in DOMAIN s}

\* str.strip(): leading and trailing white space removed
RECURSIVE LStrip(_)
LStrip(s) == IF s # <<>> /\ Head(s) = " " THEN LStrip(Tail(s)) ELSE s

RECURSIVE RStrip(_)
RStrip(s) == IF s # <<>> /\ s[Len(s)] = " " THEN RStrip(SubSeq(s, 1, Len(s) - 1)) ELSE s

Strip(s) == RStrip(LStrip(s))

\* variant: the error result also carries an (empty) content
ErrorResultWithContent(prefix, e) ==
    [type |-> "error", message |-> <<prefix, e>>, content |-> <<>>]

\* the result a decoder's except clause builds: f"<prefix>{e}"
ErrorResult(prefix, e) == [type |-> "error", message |-> <<prefix, e>>]

\* the text of a message is the concatenation of its pieces
MessageEmpty(m) == \A i \in DOMAIN m : m[i] = ""

---------------------------------------------------------------------------
(* Exceptions.  An exception is [cls, msg]; str(e) is its msg, which may be  *)
(* empty.                                                                  *)

\* a call that raised: the exception travels up instead of a value
Raise(cls, msg) == [type |-> "raise", cls |-> cls, msg |-> msg]

IsRaise(r) == "type" \in DOMAIN r /\ r.type = "raise"

\* the messages str(e) takes in the model: with and without text
ExcMsgs == {"", "detail"}

\* "except Exception as e: return {'type': 'error', 'message': f'<prefix>{e}'}"
\* every exception class the parsers raise derives from Exception
\* (variant: the clause re-raises, as get_object_content's does)
ExceptExceptionRethrow(r, prefix) == r

ExceptException(r, prefix) ==
    IF IsRaise(r) THEN ErrorResult(prefix, r.msg) ELSE r

\* "except <cls> as e: return {...}" ahead of the catch-all clause
ExceptClass(r, cls, prefix) ==
    IF IsRaise(r) /\ r.cls = cls THEN ErrorResult(prefix, r.msg) ELSE r

---------------------------------------------------------------------------
(* CSV, Parquet and Delta: a pandas DataFrame is [columns, rows].          *)

\* df.head(n)
Head_df(df, n) == [df EXCEPT !.rows = Take(df.rows, n)]

\* the "if len(df) > max_rows" block shared by view_csv, view_parquet, view_delta_table
\* returns <<df, truncated>>
LimitFrame(df, max_rows) ==
    IF Len(df.rows) > max_rows
    THEN <<Head_df(df, max_rows), TRUE>>
    ELSE <<df, FALSE>>

\* pd.read_csv(BytesIO(content)): the frame, or the parser's exception
read_csv(content) ==
    IF content.parse = "ok" THEN content.frame
    ELSE Raise(content.parse, content.msg)

view_csv_try(content, max_rows) ==
    LET df0 == read_csv(content) IN
    IF IsRaise(df0) THEN df0
    ELSE LET lim == LimitFrame(df0, max_rows)
             df == lim[1]
         IN  [type       |-> "table",
              data       |-> df.rows,
              columns    |-> df.columns,
              total_rows |-> Len(df.rows),
              truncated  |-> lim[2],
              max_rows   |-> max_rows]

view_csv(content, max_rows) ==
    ExceptException(view_csv_try(content, max_rows), "Error reading CSV: ")

\* pq.read_table(BytesIO(content)) then table.to_pandas()
read_table(content) ==
    IF content.parse = "ok" THEN content.frame
    ELSE Raise(content.parse, content.msg)

view_parquet_try(content, max_rows) ==
    LET df0 == read_table(content) IN
    IF IsRaise(df0) THEN df0
    ELSE LET lim == LimitFrame(df0, max_rows)
             df == lim[1]
         IN  [type       |-> "table",
              data       |-> df.rows,
              columns    |-> df.columns,
              total_rows |-> Len(df.rows),
              truncated  |-> lim[2],
              max_rows   |-> max_rows,
              schema     |-> <<"schema", df0.columns>>]

view_parquet(content, max_rows) ==
    ExceptException(view_parquet_try(content, max_rows), "Error reading Parquet: ")

\* DeltaTable(full_path, ...): the snapshot [frame, version, files], or the exception
\* of a missing log, an unreadable data file or a storage error
DeltaTable(s3_path) ==
    IF s3_path.parse = "ok" THEN s3_path
    ELSE Raise(s3_path.parse, s3_path.msg)

\* variant: 'files' counted on the capped frame instead of dt.files()
view_delta_table_try_files_of_df(s3_path, max_rows) ==
    LET dt == DeltaTable(s3_path) IN
    IF IsRaise(dt) THEN dt
    ELSE LET lim == LimitFrame(dt.frame, max_rows)
             df == lim[1]
         IN  [type       |-> "delta_table",
              data       |-> df.rows,
              columns    |-> df.columns,
              total_rows |-> Len(df.rows),
              truncated  |-> lim[2],
              max_rows   |-> max_rows,
              metadata   |-> [version |-> dt.version,
                              files   |-> Len(df.rows),
                              schema  |-> <<"schema", dt.frame.columns>>]]

view_delta_table_try(s3_path, max_rows) ==
    LET dt == DeltaTable(s3_path) IN
    IF IsRaise(dt) THEN dt
    ELSE LET lim == LimitFrame(dt.frame, max_rows)
             df == lim[1]
         IN  [type       |-> "delta_table",
              data       |-> df.rows,
              columns    |-> df.columns,
              total_rows |-> Len(df.rows),
              truncated  |-> lim[2],
              max_rows   |-> max_rows,
              metadata   |-> [version |-> dt.version,
                              files   |-> dt.files,
                              schema  |-> <<"schema", dt.frame.columns>>]]

view_delta_table(s3_path, max_rows) ==
    ExceptException(view_delta_table_try(s3_path, max_rows), "Error reading Delta table: ")

---------------------------------------------------------------------------
(* Avro.  The container is [parse, msg, records, bad]: fastavro.reader     *)
(* raises on a corrupt header (parse # "ok"); the iterator yields          *)
(* records[1], records[2], ... and raises when it reaches the corrupt      *)
(* block, records[bad] (bad = 0: no corrupt block).                         *)

\* variant: the loop breaks one record late (i > max_rows)
RECURSIVE AvroLoopLate(_, _, _, _)
AvroLoopLate(content, max_rows, i, records) ==
    IF i >= Len(content.records) THEN [type |-> "ok", records |-> records]
    ELSE IF content.bad = i + 1 THEN Raise("ValueError", content.msg)
    ELSE IF i > max_rows THEN [type |-> "ok", records |-> records]
    ELSE AvroLoopLate(content, max_rows, i + 1, Append(records, content.records[i + 1]))

\* the loop "for i, record in enumerate(reader): if i >= max_rows: break;
\* records.append(record)", from index i (0-based) with `records` read so far
RECURSIVE AvroLoop(_, _, _, _)
AvroLoop(content, max_rows, i, records) ==
    IF i >= Len(content.records) THEN [type |-> "ok", records |-> records]  \* exhausted
    ELSE IF content.bad = i + 1 THEN Raise("ValueError", content.msg)       \* next() raises
    ELSE IF i >= max_rows THEN [type |-> "ok", records |-> records]         \* break
    ELSE AvroLoop(content, max_rows, i + 1, Append(records, content.records[i + 1]))

\* truncated = len(records) == max_rows
AvroTruncated(records, max_rows) == Len(records) = max_rows

\* list(records[0].keys()) if records else []
AvroColumns(records) == IF records # <<>> THEN records[1].keys ELSE <<>>

view_avro_try(content, max_rows) ==
    IF content.parse # "ok" THEN Raise(content.parse, content.msg)  \* fastavro.reader(bio)
    ELSE LET loop == AvroLoop(content, max_rows, 0, <<>>) IN
         IF IsRaise(loop) THEN loop
         ELSE [type       |-> "table",
               data       |-> loop.records,
               columns    |-> AvroColumns(loop.records),
               total_rows |-> Len(loop.records),
               truncated  |-> AvroTruncated(loop.records, max_rows),
               max_rows   |-> max_rows,
               schema     |-> <<"schema", content.schema>>]

view_avro(content, max_rows) ==
    ExceptException(view_avro_try(content, max_rows), "Error reading Avro: ")

---------------------------------------------------------------------------
(* JSON.  A parsed value is [t |-> "list", items], [t |-> "dict", items]   *)
(* with items a sequence of [k, v] in source order and distinct keys, or   *)
(* a primitive [t |-> "str" | "num" | "null", v |-> its text].             *)

JStr(s) == [t |-> "str", v |-> s]

\* isinstance(x, dict), isinstance(x, list)
IsDict(x) == x.t = "dict"
IsList(x) == x.t = "list"

\* item.keys()
KeysOf(item) == {item.items[i].k : i \in DOMAIN item.items}

\* item.get(col, '')
Get(item, col) ==
    IF col \in KeysOf(item)
    THEN (CHOOSE e \in Range(item.items) : e.k = col).v
    ELSE JStr(<<>>)

\* str(v) of a primitive
StrOf(v) == IF v.t = "null" THEN <<"N", "o", "n", "e">> ELSE v.v

\* s.join(parts)
RECURSIVE Join(_, _)
Join(parts, sep) ==
    IF parts = <<>> THEN <<>>
    ELSE IF Len(parts) = 1 THEN parts[1]
    ELSE parts[1] \o sep \o Join(Tail(parts), sep)

\* json.dumps(v, indent=2), as its tokens (the white space of the indentation left out)
RECURSIVE Dumps(_)
DumpsEach(items) == [i \in DOMAIN items |-> Dumps(items[i])]
DumpsPairs(items) ==
    [i \in DOMAIN items |-> <<"\"">> \o items[i].k \o <<"\"", ":">> \o Dumps(items[i].v)]
Dumps(v) ==
    CASE v.t = "list" -> <<"[">> \o Join(DumpsEach(v.items), <<",">>) \o <<"]">>
      [] v.t = "dict" -> <<"{">> \o Join(DumpsPairs(v.items), <<",">>) \o <<"}">>
      [] v.t = "str"  -> <<"\"">> \o v.v \o <<"\"">>
      [] v.t = "num"  -> v.v
      [] v.t = "null" -> <<"n", "u", "l", "l">>

\* content.decode('utf-8') followed by json.loads(content_str)
loads(content) ==
    IF ~content.utf8 THEN Raise("UnicodeDecodeError", content.msg)
    ELSE IF content.parse # "ok" THEN Raise(content.parse, content.msg)
    ELSE content.data

\* "for item in data: if isinstance(item, dict): all_columns.update(item.keys())"
\* (variant: the keys of the first element only, as view_avro takes its columns)
AllColumnsFirst(data) == KeysOf(data.items[1])

AllColumns(data) ==
    UNION {KeysOf(data.items[i]) : i \in {j \in DOMAIN data.items : IsDict(data.items[j])}}

\* columns = sorted(list(all_columns))
JsonColumns(data) == Sorted(AllColumns(data))

\* normalized_row = {col: item.get(col, '') for col in columns}
\* (variant: the row keeps only the keys the element has)
NormalizedRowSparse(item, columns) ==
    [col \in Range(columns) \cap KeysOf(item) |-> Get(item, col)]

NormalizedRow(item, columns) == [col \in Range(columns) |-> Get(item, col)]

\* "for item in display_data: if isinstance(item, dict): normalized_data.append(...)"
RECURSIVE NormalizedData(_, _)
NormalizedData(display_data, columns) ==
    IF display_data = <<>> THEN <<>>
    ELSE (IF IsDict(Head(display_data))
          THEN <<NormalizedRow(Head(display_data), columns)>>
          ELSE <<>>) \o NormalizedData(Tail(display_data), columns)

\* 'total_rows': len(display_data)
JsonTotalRows(display_data, normalized_data) == Len(display_data)

\* data[:100] if len(data) > 100 else data
RawJsonCap == 100

\* the branch "if data and isinstance(data[0], dict)"
view_json_array(data, max_rows) ==
    LET columns         == JsonColumns(data)
        display_data    == IF Len(data.items) > max_rows
                           THEN Take(data.items, max_rows) ELSE data.items
        truncated       == Len(data.items) > max_rows
        normalized_data == NormalizedData(display_data, columns)
    IN  [type       |-> "table",
         data       |-> normalized_data,
         columns    |-> columns,
         total_rows |-> JsonTotalRows(display_data, normalized_data),
         truncated  |-> truncated,
         max_rows   |-> max_rows,
         raw_json   |-> Dumps([t |-> "list",
                               items |-> IF Len(data.items) > RawJsonCap
                                         THEN Take(data.items, RawJsonCap)
                                         ELSE data.items])]

\* [{'key': k, 'value': json.dumps(v) if isinstance(v, (dict, list)) else str(v)} ...]
StrKey == <<"k", "e", "y">>
StrValue == <<"v", "a", "l", "u", "e">>

KeyValueRow(e) ==
    (StrKey :> e.k) @@
    (StrValue :> IF IsDict(e.v) \/ IsList(e.v) THEN Dumps(e.v) ELSE StrOf(e.v))

\* variant: raw_json serializes the displayed keys only
view_json_object_raw_of_display(data, max_rows) ==
    LET items         == data.items
        display_items == IF Len(items) > max_rows THEN Take(items, max_rows) ELSE items
        truncated     == Len(items) > max_rows
    IN  [type       |-> "table",
         data       |-> [i \in DOMAIN display_items |-> KeyValueRow(display_items[i])],
         columns    |-> <<StrKey, StrValue>>,
         total_rows |-> Len(display_items),
         truncated  |-> truncated,
         max_rows   |-> max_rows,
         raw_json   |-> Dumps([data EXCEPT !.items = display_items])]

\* the branch "elif isinstance(data, dict)"
view_json_object(data, max_rows) ==
    LET items         == data.items
        display_items == IF Len(items) > max_rows THEN Take(items, max_rows) ELSE items
        truncated     == Len(items) > max_rows
    IN  [type       |-> "table",
         data       |-> [i \in DOMAIN display_items |-> KeyValueRow(display_items[i])],
         columns    |-> <<StrKey, StrValue>>,
         total_rows |-> Len(display_items),
         truncated  |-> truncated,
         max_rows   |-> max_rows,
         raw_json   |-> Dumps(data)]

view_json_try(content, max_rows) ==
    LET data == loads(content) IN
    IF IsRaise(data) THEN data
    ELSE IF IsList(data) THEN
        IF data.items # <<>> /\ IsDict(data.items[1])
        THEN view_json_array(data, max_rows)
        ELSE [type    |-> "json_raw",
              content |-> Dumps(data),
              size    |-> Len(data.items)]
    ELSE IF IsDict(data) THEN view_json_object(data, max_rows)
    ELSE [type |-> "json_raw", content |-> Dumps(data), size |-> 1]

view_json(content, max_rows) ==
    ExceptException(
        ExceptClass(
            ExceptClass(view_json_try(content, max_rows),
                        "JSONDecodeError", "Invalid JSON format: "),
            "UnicodeDecodeError", "Unable to decode file as UTF-8: "),
        "Error reading JSON: ")

---------------------------------------------------------------------------
(* XML.  An element is [tag, attrib, text, subs]: attrib a sequence of     *)
(* [k, v] in document order, text the characters before its first child    *)
(* (<<>> for None), subs its child elements.  The root's direct children   *)
(* carry sub-elements [tag, attrib, text].                                 *)

\* "child.text and child.text.strip()"
HasText(e) == e.text # <<>> /\ Strip(e.text) # <<>>

StrText == <<"_", "t", "e", "x", "t">>

\* "for attr, value in e.attrib.items()": the (key, value) pairs, the key
\* f"@{attr}" for the child itself (prefix <<>>) and f"{sub_elem.tag}@{attr}" below it
AttribFields(attrib, prefix) ==
    [i \in DOMAIN attrib |-> <<prefix \o <<"@">> \o attrib[i].k, attrib[i].v>>]

\* the body of "for sub_elem in child": the text under the tag, then the attributes
SubFields(sub) ==
    (IF HasText(sub) THEN <<<<sub.tag, Strip(sub.text)>>>> ELSE <<>>)
    \o AttribFields(sub.attrib, sub.tag)

RECURSIVE SubsFields(_)
SubsFields(subs) ==
    IF subs = <<>> THEN <<>> ELSE SubFields(Head(subs)) \o SubsFields(Tail(subs))

\* the (key, value) assignments one child gives rise to, in the order the code
\* makes them: attributes, own text, then each sub-element
ChildFields(child) ==
    AttribFields(child.attrib, <<>>)
    \o (IF HasText(child) THEN <<<<StrText, Strip(child.text)>>>> ELSE <<>>)
    \o SubsFields(child.subs)

\* the sample the column pass reads: children[:sample_size]
TagCheckCount == 10
SampleSize == 50

\* variant: the column pass reads every child, not the sample
XmlAllColumnsFullScan(children) ==
    UNION {{f[1] : f \in Range(ChildFields(children[i]))} : i \in DOMAIN children}

\* all_columns after the loop over children[:sample_size]
XmlAllColumns(children) ==
    LET sample == Take(children, Min(SampleSize, Len(children)))
    IN  UNION {{f[1] : f \in Range(ChildFields(sample[i]))} : i \in DOMAIN sample}

\* variant: the assignments of the row pass are not guarded by "in record"
XmlRecordUnguarded(child, columns) ==
    LET fields == ChildFields(child)
        keys == Range(columns) \cup {f[1] : f \in Range(fields)}
        last(col) == CHOOSE i \in DOMAIN fields :
                        /\ fields[i][1] = col
                        /\ \A j \in DOMAIN fields : fields[j][1] = col => j <= i
    IN  [col \in keys |->
            IF \E i \in DOMAIN fields : fields[i][1] = col
            THEN fields[last(col)][2]
            ELSE <<>>]

\* record = {col: '' ...} followed by the guarded assignments: the last
\* assignment to a discovered column stands
XmlRecord(child, columns) ==
    LET fields == ChildFields(child)
        last(col) == CHOOSE i \in DOMAIN fields :
                        /\ fields[i][1] = col
                        /\ \A j \in DOMAIN fields : fields[j][1] = col => j <= i
    IN  [col \in Range(columns) |->
            IF \E i \in DOMAIN fields : fields[i][1] = col
            THEN fields[last(col)][2]
            ELSE <<>>]

\* all(child.tag == first_child_tag for child in children[:10])
\* (variant: every child is compared, not the first 10)
SameTagAll(children) ==
    \A i \in DOMAIN children : children[i].tag = children[1].tag

SameTag(children) ==
    \A i \in DOMAIN Take(children, TagCheckCount) : children[i].tag = children[1].tag

\* display_children = children[:max_rows] if len(children) > max_rows else children
DisplayChildren(children, max_rows) ==
    IF Len(children) > max_rows THEN Take(children, max_rows) ELSE children

\* ET.fromstring(content.decode('utf-8'))
fromstring(content) ==
    IF ~content.utf8 THEN Raise("UnicodeDecodeError", content.msg)
    ELSE IF content.parse # "ok" THEN Raise(content.parse, content.msg)
    ELSE content.root

view_xml_try(content, max_rows) ==
    LET root == fromstring(content) IN
    IF IsRaise(root) THEN root
    ELSE LET children == root.children IN
    IF children # <<>> THEN
        IF SameTag(children)
        THEN LET columns == Sorted(XmlAllColumns(children))
                 display_children == DisplayChildren(children, max_rows)
                 records == [i \in DOMAIN display_children |->
                               XmlRecord(display_children[i], columns)]
             IN  [type       |-> "table",
                  data       |-> records,
                  columns    |-> columns,
                  total_rows |-> Len(records),
                  truncated  |-> Len(children) > max_rows,
                  max_rows   |-> max_rows,
                  xml_info   |-> [root_tag       |-> root.tag,
                                  total_elements |-> Len(children),
                                  element_type   |-> children[1].tag]]
        ELSE [type     |-> "xml_raw",
              content  |-> content.str,
              xml_info |-> [root_tag    |-> root.tag,
                            child_count |-> Len(children),
                            structure   |-> "mixed"]]
    ELSE [type     |-> "xml_raw",
          content  |-> content.str,
          xml_info |-> [root_tag  |-> root.tag,
                        has_text  |-> HasText(root),
                        structure |-> "simple"]]

view_xml(content, max_rows) ==
    ExceptException(
        ExceptClass(
            ExceptClass(view_xml_try(content, max_rows),
                        "ParseError", "Invalid XML format: "),
            "UnicodeDecodeError", "Unable to decode file as UTF-8: "),
        "Error reading XML: ")

---------------------------------------------------------------------------
(* Raw view.  Content is a sequence of bytes; decoded text is the sequence *)
(* of its code points.                                                     *)

IsCont(b) == 128 <= b /\ b <= 191

\* bytes.decode('utf-8'), strict: the code points, or UnicodeDecodeError
RECURSIVE Utf8(_, _)
Utf8(bs, acc) ==
    IF bs = <<>> THEN [type |-> "ok", text |-> acc]
    ELSE LET b == bs[1]
             n == Len(bs)
             bad == Raise("UnicodeDecodeError", "invalid utf-8")
         IN
         IF b < 128 THEN Utf8(Tail(bs), Append(acc, b))
         ELSE IF 194 <= b /\ b <= 223 THEN
             IF n >= 2 /\ IsCont(bs[2])
             THEN Utf8(SubSeq(bs, 3, n), Append(acc, (b - 192) * 64 + (bs[2] - 128)))
             ELSE bad
         ELSE IF 224 <= b /\ b <= 239 THEN
             IF /\ n >= 3 /\ IsCont(bs[2]) /\ IsCont(bs[3])
                /\ (b = 224 => bs[2] >= 160)
                /\ (b = 237 => bs[2] <= 159)
             THEN Utf8(SubSeq(bs, 4, n),
                       Append(acc, (b - 224) * 4096 + (bs[2] - 128) * 64 + (bs[3] - 128)))
             ELSE bad
         ELSE IF 240 <= b /\ b <= 244 THEN
             IF /\ n >= 4 /\ IsCont(bs[2]) /\ IsCont(bs[3]) /\ IsCont(bs[4])
                /\ (b = 240 => bs[2] >= 144)
                /\ (b = 244 => bs[2] <= 143)
             THEN Utf8(SubSeq(bs, 5, n),
                       Append(acc, (b - 240) * 262144 + (bs[2] - 128) * 4096
                                   + (bs[3] - 128) * 64 + (bs[4] - 128)))
             ELSE bad
         ELSE bad

decode(bs) == Utf8(bs, <<>>)

\* str.lower() on the code points (the ASCII letters; no other character
\* lowers to a character of a marker)
LowerText(t) == [i \in DOMAIN t |-> IF 65 <= t[i] /\ t[i] <= 90 THEN t[i] + 32 ELSE t[i]]

\* keyword in text
Contains(t, kw) == \E i \in 1..(Len(t) - Len(kw) + 1) : SubSeq(t, i, i + Len(kw) - 1) = kw

\* the markers, as code points
KwHtml     == <<60, 104, 116, 109, 108>>               \* '<html'
KwXml      == <<60, 63, 120, 109, 108>>                \* '<?xml'
KwDef      == <<100, 101, 102, 32>>                    \* 'def '
KwClass    == <<99, 108, 97, 115, 115, 32>>            \* 'class '
KwImport   == <<105, 109, 112, 111, 114, 116, 32>>     \* 'import '
KwFunction == <<102, 117, 110, 99, 116, 105, 111, 110>> \* 'function'

\* the block that sets content_type
ContentType(text_content) ==
    LET low == LowerText(text_content) IN
    IF \E kw \in {KwHtml, KwXml, KwDef, KwClass, KwImport, KwFunction} : Contains(low, kw)
    THEN IF Contains(low, KwHtml) THEN "html"
         ELSE IF Contains(low, KwXml) THEN "xml"
         ELSE IF \E kw \in {KwDef, KwImport, KwClass} : Contains(text_content, kw)
              THEN "code"
         ELSE "text"
    ELSE "text"

\* chr(b) for 32 <= b <= 126 (the grave accent, which a TLA+ string cannot hold, by name)
Printable ==
    <<
      " ", "!", "\"", "#", "$", "%", "&", "'", "(", ")", "*", "+",
      ",", "-", ".", "/", "0", "1", "2", "3", "4", "5", "6", "7",
      "8", "9", ":", ";", "<", "=", ">", "?", "@", "A", "B", "C",
      "D", "E", "F", "G", "H", "I", "J", "K", "L", "M", "N", "O",
      "P", "Q", "R", "S", "T", "U", "V", "W", "X", "Y", "Z", "[",
      "\\", "]", "^", "_", "U+0060", "a", "b", "c", "d", "e", "f", "g",
      "h", "i", "j", "k", "l", "m", "n", "o", "p", "q", "r", "s",
      "t", "u", "v", "w", "x", "y", "z", "{", "|", "}", "~"
    >>

Chr(b) == Printable[b - 31]

HexDigits == <<"0", "1", "2", "3", "4", "5", "6", "7",
               "8", "9", "a", "b", "c", "d", "e", "f">>

\* f'{n:0<width>x}'
RECURSIVE HexOf(_, _)
HexOf(n, width) ==
    IF width = 0 /\ n = 0 THEN <<>>
    ELSE HexOf(n \div 16, IF width > 0 THEN width - 1 ELSE 0) \o <<HexDigits[(n % 16) + 1]>>

\* f'{s:<width}': padded on the right with spaces, never cut
RECURSIVE PadRight(_, _)
PadRight(s, width) == IF Len(s) >= width THEN s ELSE PadRight(Append(s, " "), width)

HexPreviewBytes == 1024
BytesPerLine == 16
HexFieldWidth == 48

\* one line of the dump: f'{i:08x}  {hex_part:<48} |{ascii_part}|'
HexLine(display_content, i) ==
    LET chunk == Slice(display_content, i, i + BytesPerLine)
        hex_part == Join([k \in DOMAIN chunk |-> HexOf(chunk[k], 2)], <<" ">>)
        ascii_part == [k \in DOMAIN chunk |->
                         IF 32 <= chunk[k] /\ chunk[k] <= 126 THEN Chr(chunk[k]) ELSE "."]
    IN  HexOf(i, 8) \o <<" ", " ">> \o PadRight(hex_part, HexFieldWidth)
        \o <<" ", "|">> \o ascii_part \o <<"|">>

\* variant: the whole slice is dumped, without the 1024-byte preview limit
HexLinesWhole(display_content) ==
    LET n == Len(display_content)
        count == (n + BytesPerLine - 1) \div BytesPerLine
    IN  [k \in 1..count |-> HexLine(display_content, (k - 1) * BytesPerLine)]

\* hex_lines: "for i in range(0, min(len(display_content), 1024), 16)"
HexLines(display_content) ==
    LET n == Min(Len(display_content), HexPreviewBytes)
        count == (n + BytesPerLine - 1) \div BytesPerLine
    IN  [k \in 1..count |-> HexLine(display_content, (k - 1) * BytesPerLine)]

\* s.split(sep)[-1]: what follows the last sep, all of s without one
RECURSIVE SplitLast(_, _)
SplitLast(s, sep) ==
    IF s = <<>> THEN <<>>
    ELSE IF s[Len(s)] = sep THEN <<>>
    ELSE Append(SplitLast(SubSeq(s, 1, Len(s) - 1), sep), s[Len(s)])

\* str.lower() on a name
LowerChar(c) ==
    CASE c = "B" -> "b"
      [] c = "C" -> "c"
      [] c = "S" -> "s"
      [] c = "V" -> "v"
      [] OTHER   -> c

Lower(s) == [i \in DOMAIN s |-> LowerChar(s[i])]

\* file_name.split('.')[-1].lower() if '.' in file_name else 'unknown'
FileExt(file_name) ==
    IF "." \in Range(file_name) THEN Lower(SplitLast(file_name, "."))
    ELSE <<"u", "n", "k", "n", "o", "w", "n">>

\* display_content = content[:max_bytes] if len(content) > max_bytes else content
\* (variant: the content is never cut)
DisplayContentWhole(content, max_bytes) == content

DisplayContent(content, max_bytes) ==
    IF Len(content) > max_bytes THEN Take(content, max_bytes) ELSE content

\* truncated = len(content) > max_bytes
RawTruncated(content, max_bytes) == Len(content) > max_bytes

\* the inner "except UnicodeDecodeError": the hex dump
view_raw_binary(content, display_content, file_name, file_ext, max_bytes) ==
    [type      |-> "raw_binary",
     content   |-> Join(HexLines(display_content), <<"\n">>),
     file_info |-> [name              |-> file_name,
                    extension         |-> file_ext,
                    size_bytes        |-> Len(content),
                    content_type      |-> "binary",
                    truncated         |-> RawTruncated(content, max_bytes),
                    max_bytes         |-> max_bytes,
                    hex_preview_bytes |-> Min(Len(display_content), HexPreviewBytes)]]

\* the inner try: decode, classify, return the text
view_raw_text(content, display_content, file_name, file_ext, max_bytes) ==
    LET text_content == decode(display_content) IN
    IF IsRaise(text_content) THEN text_content
    ELSE [type      |-> "raw_text",
          content   |-> text_content.text,
          file_info |-> [name         |-> file_name,
                         extension    |-> file_ext,
                         size_bytes   |-> Len(content),
                         content_type |-> ContentType(text_content.text),
                         truncated    |-> RawTruncated(content, max_bytes),
                         max_bytes    |-> max_bytes]]

\* "except UnicodeDecodeError:" around the inner try
\* (variant: no inner handler, the error reaches the outer except)
ExceptDecodeNone(r, content, display_content, file_name, file_ext, max_bytes) == r

ExceptDecode(r, content, display_content, file_name, file_ext, max_bytes) ==
    IF IsRaise(r) /\ r.cls = "UnicodeDecodeError"
    THEN view_raw_binary(content, display_content, file_name, file_ext, max_bytes)
    ELSE r

view_raw_try(content, file_path, max_bytes) ==
    LET file_name == SplitLast(file_path, "/")
        file_ext == FileExt(file_name)
        display_content == DisplayContent(content, max_bytes)
    IN  ExceptDecode(
            view_raw_text(content, display_content, file_name, file_ext, max_bytes),
            content, display_content, file_name, file_ext, max_bytes)

view_raw(content, file_path, max_bytes) ==
    ExceptException(view_raw_try(content, file_path, max_bytes), "Error reading file: ")

---------------------------------------------------------------------------
(* The inputs the model draws from.                                        *)

\* Config.MAX_PREVIEW_ROWS (its default) and view_raw's default max_bytes
MAX_PREVIEW_ROWS == 1000
DefaultMaxBytes == 50000

\* largest number of bytes in a raw content drawn byte by byte
MaxBytes == 3

RowCaps == (0..MaxCap) \cup {MAX_PREVIEW_ROWS}
XmlRowCaps == RowCaps \cup {TagCheckCount}
ByteCaps == (0..MaxCap) \cup {DefaultMaxBytes}

ColA == <<"a">>
ColB == <<"b">>

\* a DataFrame of n rows
Frame(n) == [columns |-> <<ColA, ColB>>,
             rows    |-> [i \in 1..n |-> [c \in {ColA, ColB} |-> i]]]

ParsedFrames == {[parse |-> "ok", msg |-> "", frame |-> Frame(n)] : n \in 0..MaxRecords}

\* malformed content: ParserError (an unterminated quoted field), EmptyDataError, ArrowInvalid
FailedFrames(classes) ==
    {[parse |-> cls, msg |-> m, frame |-> Frame(0)] : cls \in classes, m \in ExcMsgs}

CsvContents == ParsedFrames \cup FailedFrames({"ParserError", "EmptyDataError"})
ParquetContents == ParsedFrames \cup FailedFrames({"ArrowInvalid"})

DeltaPaths ==
    {[parse |-> "ok", msg |-> "", frame |-> Frame(n), version |-> v, files |-> f] :
        n \in 0..MaxRecords, v \in {0, 2}, f \in {1, 2}}
    \cup {[parse |-> "TableNotFoundError", msg |-> m, frame |-> Frame(0),
           version |-> 0, files |-> 0] : m \in ExcMsgs}

AvroRecord(i) == [keys |-> <<ColA, ColB>>, id |-> i]

AvroContents ==
    {[parse |-> "ok", msg |-> m, records |-> [i \in 1..n |-> AvroRecord(i)],
      bad |-> bad, schema |-> "writer_schema"] :
        n \in 0..MaxRecords, bad \in 0..MaxRecords, m \in {"detail"}}
    \cup {[parse |-> "ValueError", msg |-> m, records |-> <<>>, bad |-> 0,
           schema |-> "writer_schema"] : m \in ExcMsgs}

\* JSON: keys whose order by code point differs from their order ignoring case
KeyB == <<"B">>
KeyAB == <<"a", "b">>
JsonKeys == {ColA, KeyAB, KeyB}

JNum(s) == [t |-> "num", v |-> s]

\* the object with the keys of S, in sorted order, each holding its own name
JObject(S) ==
    [t |-> "dict", items |-> [i \in 1..Cardinality(S) |-> [k |-> Sorted(S)[i], v |-> JStr(Sorted(S)[i])]]]

JsonKeySets == {{}, {ColA}, {KeyB}, {ColA, KeyAB}, JsonKeys}

JsonElements ==
    {JObject(S) : S \in JsonKeySets}
    \cup {JNum(<<"7">>), [t |-> "dict", items |-> <<[k |-> ColA, v |-> [t |-> "null", v |-> <<>>]]>>]}

RECURSIVE SeqsUpTo(_, _)
SeqsUpTo(S, n) ==
    IF n = 0 THEN {<<>>}
    ELSE LET shorter == SeqsUpTo(S, n - 1)
         IN  shorter \cup {Append(q, x) : q \in {r \in shorter : Len(r) = n - 1}, x \in S}

JsonArrays == {[t |-> "list", items |-> q] : q \in SeqsUpTo(JsonElements, MaxRecords)}

\* top-level objects: distinct keys in any source order, plain and structured values
JsonMemberValues == {JStr(<<"x">>), [t |-> "list", items |-> <<JNum(<<"7">>)>>]}

JsonObjects ==
    {[t |-> "dict", items |-> q] :
        q \in {r \in SeqsUpTo([k : JsonKeys, v : JsonMemberValues], MaxRecords) :
                 \A i, j \in DOMAIN r : r[i].k = r[j].k => i = j}}

JsonValues == JsonArrays \cup JsonObjects \cup {JNum(<<"7">>), JStr(<<"x">>)}

JsonContents ==
    {[utf8 |-> TRUE, parse |-> "ok", msg |-> "", data |-> d] : d \in JsonValues}
    \cup {[utf8 |-> u, parse |-> cls, msg |-> m, data |-> JNum(<<"7">>)] :
            u \in BOOLEAN, cls \in {"JSONDecodeError", "RecursionError"}, m \in ExcMsgs}
    \cup {[utf8 |-> FALSE, parse |-> "ok", msg |-> m, data |-> JNum(<<"7">>)] : m \in ExcMsgs}

\* XML
TagItem == <<"i", "t", "e", "m">>
TagRow  == <<"r", "o", "w">>
TagName == <<"n", "a", "m", "e">>
TagQty  == <<"q", "t", "y">>

NoAttrib == <<>>
Attrib(k, v) == <<[k |-> k, v |-> v]>>

XmlSubs ==
    {[tag |-> TagName, attrib |-> NoAttrib, text |-> t] :
        t \in {<<>>, <<" ">>, <<" ", "n", " ">>}}
    \cup {[tag |-> TagQty, attrib |-> a, text |-> <<"5">>] :
            a \in {NoAttrib, Attrib(<<"u">>, <<"k">>)}}

SubNamed == [tag |-> TagName, attrib |-> NoAttrib, text |-> <<" ", "n", " ">>]

XmlSubLists ==
    {<<>>} \cup {<<x>> : x \in XmlSubs}
    \cup {<<SubNamed, [tag |-> TagQty, attrib |-> Attrib(<<"u">>, <<"k">>), text |-> <<"5">>]>>,
          <<SubNamed, [tag |-> TagName, attrib |-> NoAttrib, text |-> <<"m">>]>>}

XmlChildren ==
    {[tag |-> g, attrib |-> a, text |-> t, subs |-> ss] :
        g \in {TagItem, TagRow},
        a \in {NoAttrib, Attrib(<<"i", "d">>, <<"1">>)},
        t \in {<<>>, <<" ", "t">>},
        ss \in XmlSubLists}

\* the children that follow a run of equal children
XmlLateChildren ==
    {c \in XmlChildren : c.text = <<>> /\ c.subs \in {<<>>, <<SubNamed>>}}

Rep(x, n) == [i \in 1..n |-> x]

XmlChildLists ==
    {<<>>}
    \cup {Rep(a, n) : a \in XmlChildren, n \in {1, 2, TagCheckCount}}
    \cup {Append(Rep(a, n), b) :
            a \in XmlChildren, n \in {1, 2, TagCheckCount}, b \in XmlLateChildren}

XmlRoots ==
    {[tag |-> <<"r">>, text |-> t, children |-> cl] :
        t \in {<<>>}, cl \in XmlChildLists}
    \cup {[tag |-> <<"r">>, text |-> <<"t">>, children |-> <<>>]}

XmlContents ==
    {[utf8 |-> TRUE, parse |-> "ok", msg |-> "", root |-> r, str |-> <<"xml", r>>] :
        r \in XmlRoots}
    \cup {[utf8 |-> u, parse |-> cls, msg |-> m, root |-> <<>>, str |-> <<>>] :
            u \in BOOLEAN, cls \in {"ParseError", "RecursionError"}, m \in ExcMsgs}
    \cup {[utf8 |-> FALSE, parse |-> "ok", msg |-> m, root |-> <<>>, str |-> <<>>] :
            m \in ExcMsgs}

\* documents longer than the column sample: a run of SampleSize - 1 or
\* SampleSize equal children followed by one child that may bring new fields
XmlSampleChildren ==
    {c \in XmlChildren :
        /\ c.tag = TagItem
        /\ c.subs \in {<<>>, <<[tag |-> TagQty, attrib |-> Attrib(<<"u">>, <<"k">>),
                                 text |-> <<"5">>]>>}}

XmlSampledLists ==
    {Append(Rep(a, n), b) :
        a \in XmlSampleChildren, n \in {SampleSize - 1, SampleSize}, b \in XmlLateChildren}

XmlSampledContents ==
    {[utf8 |-> TRUE, parse |-> "ok", msg |-> "",
      root |-> [tag |-> <<"r">>, text |-> <<>>, children |-> cl],
      str |-> <<"xml", cl>>] : cl \in XmlSampledLists}

XmlSampledCaps == {0, 1, SampleSize, SampleSize + 1, MAX_PREVIEW_ROWS}

\* raw: 'A', the two bytes of U+00E9, and a byte no UTF-8 text holds
RawAlphabet == {65, 195, 169, 255}
RawContents == SeqsUpTo(RawAlphabet, MaxBytes)

\* binary contents around the line and preview sizes of the hex dump: a byte
\* no UTF-8 text holds, then bytes of every kind (b * step mod 256)
LongBinary(n, step) == [i \in 1..n |-> IF i = 1 THEN 255 ELSE (i * step) % 256]

LongSizes ==
    {1, BytesPerLine - 1, BytesPerLine, BytesPerLine + 1, 2 * BytesPerLine,
     HexPreviewBytes - 1, HexPreviewBytes, HexPreviewBytes + 1,
     HexPreviewBytes + BytesPerLine}

LongRawContents == {LongBinary(n, step) : n \in LongSizes, step \in {7, 37}}

LongByteCaps ==
    {1, BytesPerLine, BytesPerLine + 1, HexPreviewBytes, HexPreviewBytes + 1,
     DefaultMaxBytes}

\* texts holding the markers of the content_type block: each marker alone, in
\* upper case, after another character, and every two markers in a row
UpperText(t) == [i \in DOMAIN t |-> IF 97 <= t[i] /\ t[i] <= 122 THEN t[i] - 32 ELSE t[i]]

Markers == {KwHtml, KwXml, KwDef, KwClass, KwImport, KwFunction}

MarkerTexts ==
    {<<65, 65>>}
    \cup Markers
    \cup {UpperText(m) : m \in Markers}
    \cup {<<65>> \o m : m \in Markers}
    \cup {m1 \o m2 : m1, m2 \in Markers}

\* a cap that cuts after the first marker '<html' or '<?xml', and the default
TextByteCaps == {Len(KwHtml), DefaultMaxBytes}

FilePaths ==
    {
     <<"a", ".", "c", "s", "v">>,   \* 'a.csv'
     <<"d", "/", "B", ".", "C", "S", "V">>,   \* 'd/B.CSV'
     <<"a", ".", "p", "a", "r", "q", "u", "e", "t">>,   \* 'a.parquet'
     <<"a", ".", "a", "v", "r", "o">>,   \* 'a.avro'
     <<"a", ".", "j", "s", "o", "n">>,   \* 'a.json'
     <<"a", ".", "x", "m", "l">>,   \* 'a.xml'
     <<"a", ".", "t", "x", "t">>,   \* 'a.txt'
     <<"a", "c", "s", "v">>,   \* 'acsv'
     <<"a", ".", "c", "s", "v", ".", "b", "a", "k">>,   \* 'a.csv.bak'
     <<"a", ".", "j", "s", "o", "n", "l">>,   \* 'a.jsonl'
     <<"d", "/", "a">>,   \* 'd/a'
     <<".", "x", "m", "l">>,   \* '.xml'
     <<"a", ".", "x", "m", "l", "/", "b">>   \* 'a.xml/b'
    }

\* the paths view_raw is called with directly: an upper-case extension, none, a plain one
RawFilePaths ==
    {<<"d", "/", "B", ".", "C", "S", "V">>, <<"a", "c", "s", "v">>,
     <<"a", ".", "t", "x", "t">>}

\* what the storage holds under a key: the bytes, given by what each parser
\* makes of them (a decoder only ever sees its own parser's reading)
SampleFrame == [parse |-> "ok", msg |-> "", frame |-> Frame(2)]
SampleBadFrame == [parse |-> "ParserError", msg |-> "detail", frame |-> Frame(0)]
SampleAvro == [parse |-> "ok", msg |-> "detail", records |-> [i \in 1..2 |-> AvroRecord(i)],
               bad |-> 0, schema |-> "writer_schema"]
SampleBadAvro == [parse |-> "ValueError", msg |-> "detail", records |-> <<>>, bad |-> 0,
                  schema |-> "writer_schema"]
SampleJson == [utf8 |-> TRUE, parse |-> "ok", msg |-> "",
               data |-> [t |-> "list", items |-> <<JObject({ColA}), JObject({KeyB})>>]]
SampleBadJson == [utf8 |-> TRUE, parse |-> "JSONDecodeError", msg |-> "detail",
                  data |-> JNum(<<"7">>)]
SampleRoot == [tag |-> <<"r">>, text |-> <<>>,
               children |-> Rep([tag |-> TagItem, attrib |-> NoAttrib, text |-> <<>>,
                                 subs |-> <<SubNamed>>], 2)]
SampleXml == [utf8 |-> TRUE, parse |-> "ok", msg |-> "", root |-> SampleRoot,
              str |-> <<"xml", SampleRoot>>]
SampleBadXml == [utf8 |-> TRUE, parse |-> "ParseError", msg |-> "detail", root |-> <<>>,
                 str |-> <<>>]

Blobs ==
    [csv     : {SampleFrame, SampleBadFrame},
     parquet : {SampleFrame, SampleBadFrame},
     avro    : {SampleAvro, SampleBadAvro},
     json    : {SampleJson, SampleBadJson},
     xml     : {SampleXml, SampleBadXml},
     raw     : {<<65, 65>>, <<255, 65>>}]

---------------------------------------------------------------------------
(* The /view handler.                                                      *)

\* str.endswith(suffix)
EndsWith(s, suffix) ==
    Len(s) >= Len(suffix) /\ SubSeq(s, Len(s) - Len(suffix) + 1, Len(s)) = suffix

ExtCsv     == <<".", "c", "s", "v">>
ExtParquet == <<".", "p", "a", "r", "q", "u", "e", "t">>
ExtAvro    == <<".", "a", "v", "r", "o">>
ExtJson    == <<".", "j", "s", "o", "n">>
ExtXml     == <<".", "x", "m", "l">>

\* the if/elif chain on <lowered name>.endswith(...): the decoder it calls
DecoderChain(f) ==
    IF EndsWith(f, ExtCsv) THEN "view_csv"
    ELSE IF EndsWith(f, ExtParquet) THEN "view_parquet"
    ELSE IF EndsWith(f, ExtAvro) THEN "view_avro"
    ELSE IF EndsWith(f, ExtJson) THEN "view_json"
    ELSE IF EndsWith(f, ExtXml) THEN "view_xml"
    ELSE "view_raw"

\* file.lower() feeds every test of the chain
\* (variant: the name is tested as given)
DecoderForNoLower(f) == DecoderChain(f)

DecoderFor(f) == DecoderChain(Lower(f))

\* the call the chosen branch makes
Decode(decoder, f, content) ==
    CASE decoder = "view_csv"     -> view_csv(content.csv, MAX_PREVIEW_ROWS)
      [] decoder = "view_parquet" -> view_parquet(content.parquet, MAX_PREVIEW_ROWS)
      [] decoder = "view_avro"    -> view_avro(content.avro, MAX_PREVIEW_ROWS)
      [] decoder = "view_json"    -> view_json(content.json, MAX_PREVIEW_ROWS)
      [] decoder = "view_xml"     -> view_xml(content.xml, MAX_PREVIEW_ROWS)
      [] decoder = "view_raw"     -> view_raw(content.raw, f, DefaultMaxBytes)

\* the invocation, as `call` records it
CallOf(decoder, f, content) ==
    CASE decoder = "view_csv"     -> [fn |-> decoder, content |-> content.csv, file_path |-> f, cap |-> MAX_PREVIEW_ROWS]
      [] decoder = "view_parquet" -> [fn |-> decoder, content |-> content.parquet, file_path |-> f, cap |-> MAX_PREVIEW_ROWS]
      [] decoder = "view_avro"    -> [fn |-> decoder, content |-> content.avro, file_path |-> f, cap |-> MAX_PREVIEW_ROWS]
      [] decoder = "view_json"    -> [fn |-> decoder, content |-> content.json, file_path |-> f, cap |-> MAX_PREVIEW_ROWS]
      [] decoder = "view_xml"     -> [fn |-> decoder, content |-> content.xml, file_path |-> f, cap |-> MAX_PREVIEW_ROWS]
      [] decoder = "view_raw"     -> [fn |-> decoder, content |-> content.raw, file_path |-> f, cap |-> DefaultMaxBytes]

\* s3_handler.get_object_content(key): the bytes, or the client's exception re-raised
get_object_content(outcome) ==
    IF outcome.ok THEN outcome.body ELSE Raise("ClientError", outcome.msg)

StorageOutcomes ==
    {[ok |-> TRUE, msg |-> "", body |-> b] : b \in Blobs}
    \cup {[ok |-> FALSE, msg |-> m, body |-> <<>>] : m \in {"NoSuchKey", "AccessDenied"}}

\* variant: the handler lets the exception through
ErrorPagePropagate(e) == e

\* template_vars when the handler's "except Exception as e" runs
ErrorPage(e) ==
    [error_html |-> <<"<div class=\"error\">", e.msg, "</div>">>,
     info_html |-> "", content_html |-> ""]

\* template_vars after "Handle file content"
RenderPage(file_content) ==
    IF file_content.type = "error"
    THEN [error_html |-> <<"<div class=\"error\">">> \o file_content.message \o <<"</div>">>,
          info_html |-> "", content_html |-> ""]
    ELSE IF file_content.type \in {"table", "delta_table"}
    THEN [error_html |-> <<>>,
          info_html |-> IF file_content.truncated THEN "Showing first rows" ELSE "",
          content_html |-> file_content.type]
    ELSE [error_html |-> <<>>, info_html |-> "", content_html |-> file_content.type]

---------------------------------------------------------------------------
(* The state machine: a caller invokes one decoder, or the /view handler   *)
(* serves one request, and then returns to idle.                           *)

NoCall == [fn |-> "none", content |-> <<>>, file_path |-> <<>>, cap |-> 0]
NoResult == [type |-> "none"]
NoPage == [error_html |-> <<>>, info_html |-> "", content_html |-> ""]

\* view_file(file) when the storage answers the handler's get with `outcome`:
\* whether the get was made and raised, the decoders invoked, the call made to
\* the decoder and what it returned, and the rendered template variables
view_file(f, outcome) ==
    IF f = <<>>
    THEN \* raise HTTPException(status_code=400, ...), caught below
         [fetch |-> "none", invoked |-> <<>>, call |-> NoCall, result |-> NoResult,
          page |-> ErrorPage(Raise("HTTPException", "400: No file specified"))]
    ELSE LET content == get_object_content(outcome) IN
         IF IsRaise(content)
         THEN [fetch |-> "raised", invoked |-> <<>>, call |-> NoCall, result |-> NoResult,
               page |-> ErrorPage(content)]
         ELSE LET decoder == DecoderFor(f)
                  file_content == Decode(decoder, f, content)
              IN  [fetch |-> "ok", invoked |-> <<decoder>>,
                   call |-> CallOf(decoder, f, content),
                   result |-> file_content,
                   page |-> IF IsRaise(file_content)
                            THEN ErrorPage(file_content)
                            ELSE RenderPage(file_content)]

\* the requests the server holds at once, and a request slot that holds none
Requests == 1..MaxRequests

NoOutcome == [ok |-> FALSE, msg |-> "none", body |-> <<>>]

NoRequest ==
    [pc |-> "idle", file |-> <<>>, answer |-> NoOutcome, gets |-> 0,
     result |-> NoResult, page |-> NoPage]

\* variant: a content cache keyed by file name, filled by the requests served
\* before and not yet answered
FetchCached(rs, f, outcome) ==
    LET hits == {j \in DOMAIN rs : rs[j].pc = "served" /\ rs[j].file = f /\ rs[j].answer.ok}
    IN  IF hits # {}
        THEN [outcome |-> rs[CHOOSE j \in hits : TRUE].answer, gets |-> 0]
        ELSE [outcome |-> outcome, gets |-> IF f = <<>> THEN 0 ELSE 1]

\* content = s3_handler.get_object_content(file): the handler works on what
\* the storage answers to its own get, whatever the other requests `rs` hold;
\* a request without a file name raises before the get
FetchFor(rs, f, outcome) ==
    [outcome |-> outcome, gets |-> IF f = <<>> THEN 0 ELSE 1]

Init ==
    /\ pc = "idle"
    /\ call = NoCall
    /\ result = NoResult
    /\ file = <<>>
    /\ fetch = "none"
    /\ invoked = <<>>
    /\ page = NoPage
    /\ reqs = [i \in Requests |-> NoRequest]

\* a direct invocation fn(content, cap) returning r
Invoke(fn, content, path, cap, r) ==
    /\ pc' = "returned"
    /\ call' = [fn |-> fn, content |-> content, file_path |-> path, cap |-> cap]
    /\ result' = r
    /\ UNCHANGED <<file, fetch, invoked, page, reqs>>

CallCsv ==
    /\ pc = "idle"
    /\ \E content \in CsvContents, max_rows \in RowCaps :
           Invoke("view_csv", content, <<>>, max_rows, view_csv(content, max_rows))

CallParquet ==
    /\ pc = "idle"
    /\ \E content \in ParquetContents, max_rows \in RowCaps :
           Invoke("view_parquet", content, <<>>, max_rows, view_parquet(content, max_rows))

CallAvro ==
    /\ pc = "idle"
    /\ \E content \in AvroContents, max_rows \in RowCaps :
           Invoke("view_avro", content, <<>>, max_rows, view_avro(content, max_rows))

CallJson ==
    /\ pc = "idle"
    /\ \E content \in JsonContents, max_rows \in RowCaps :
           Invoke("view_json", content, <<>>, max_rows, view_json(content, max_rows))

CallXml ==
    /\ pc = "idle"
    /\ \E content \in XmlContents, max_rows \in XmlRowCaps :
           Invoke("view_xml", content, <<>>, max_rows, view_xml(content, max_rows))

\* view_xml on a document with more children than the column sample reads
CallXmlSampled ==
    /\ pc = "idle"
    /\ \E content \in XmlSampledContents, max_rows \in XmlSampledCaps :
           Invoke("view_xml", content, <<>>, max_rows, view_xml(content, max_rows))

CallRaw ==
    /\ pc = "idle"
    /\ \E content \in RawContents, file_path \in RawFilePaths, max_bytes \in ByteCaps :
           Invoke("view_raw", content, file_path, max_bytes,
                  view_raw(content, file_path, max_bytes))

\* view_raw on binary content longer than a dump line or than the preview
CallRawLong ==
    /\ pc = "idle"
    /\ \E content \in LongRawContents, file_path \in RawFilePaths, max_bytes \in LongByteCaps :
           Invoke("view_raw", content, file_path, max_bytes,
                  view_raw(content, file_path, max_bytes))

\* view_raw on text that holds the markers of the content_type block
CallRawText ==
    /\ pc = "idle"
    /\ \E content \in MarkerTexts, file_path \in RawFilePaths, max_bytes \in TextByteCaps :
           Invoke("view_raw", content, file_path, max_bytes,
                  view_raw(content, file_path, max_bytes))

CallDelta ==
    /\ pc = "idle"
    /\ \E s3_path \in DeltaPaths, max_rows \in RowCaps :
           Invoke("view_delta_table", s3_path, <<>>, max_rows,
                  view_delta_table(s3_path, max_rows))

\* GET /view?file=f, the storage answering `outcome`
ViewFile ==
    /\ pc = "idle"
    /\ \E f \in FilePaths \cup {<<>>}, outcome \in StorageOutcomes :
        LET served == view_file(f, outcome) IN
        /\ pc' = "done"
        /\ file' = f
        /\ fetch' = served.fetch
        /\ invoked' = served.invoked
        /\ call' = served.call
        /\ result' = served.result
        /\ page' = served.page
        /\ UNCHANGED reqs

\* the caller takes the result; the next call or request starts afresh
Return ==
    /\ pc \in {"returned", "done"}
    /\ pc' = "idle"
    /\ call' = NoCall
    /\ result' = NoResult
    /\ file' = <<>>
    /\ fetch' = "none"
    /\ invoked' = <<>>
    /\ page' = NoPage
    /\ UNCHANGED reqs

Next ==
    \/ CallCsv
    \/ CallParquet
    \/ CallAvro
    \/ CallJson
    \/ CallXml
    \/ CallRaw
    \/ CallDelta
    \/ ViewFile
    \/ Return

Spec == Init /\ [][Next]_vars

\* view_xml alone, on the short documents and on those longer than the sample
NextXml ==
    \/ CallXml
    \/ CallXmlSampled
    \/ Return

SpecXml == Init /\ [][NextXml]_vars

\* view_raw alone, on the short contents, the long binary ones and the marker texts
NextRaw ==
    \/ CallRaw
    \/ CallRawLong
    \/ CallRawText
    \/ Return

SpecRaw == Init /\ [][NextRaw]_vars

---------------------------------------------------------------------------
(* Concurrent /view requests.  view_file is "async def" without an await, so *)
(* the event loop runs each handler call to its end before the next one;    *)
(* what interleaves is the arrival of requests, the handler calls and the   *)
(* sending of responses, the storage answering each get on its own.         *)

ConcFiles ==
    {<<>>, <<"a", ".", "c", "s", "v">>, <<"a", ".", "j", "s", "o", "n">>,
     <<"a", ".", "t", "x", "t">>}

ConcBlobs ==
    {[csv |-> SampleFrame, parquet |-> SampleFrame, avro |-> SampleAvro,
      json |-> SampleJson, xml |-> SampleXml, raw |-> <<65, 65>>],
     [csv |-> SampleBadFrame, parquet |-> SampleFrame, avro |-> SampleAvro,
      json |-> SampleBadJson, xml |-> SampleXml, raw |-> <<255, 65>>]}

ConcOutcomes ==
    {[ok |-> TRUE, msg |-> "", body |-> b] : b \in ConcBlobs}
    \cup {[ok |-> FALSE, msg |-> "NoSuchKey", body |-> <<>>]}

ConcUnchanged == UNCHANGED <<pc, call, result, file, fetch, invoked, page>>

\* a request GET /view?file=f reaches the server
Arrive(i) ==
    /\ reqs[i].pc = "idle"
    /\ \E f \in ConcFiles :
           reqs' = [reqs EXCEPT ![i] = [NoRequest EXCEPT !.pc = "arrived", !.file = f]]
    /\ ConcUnchanged

\* the event loop runs view_file for request i, the storage answering `outcome`
Serve(i) ==
    /\ reqs[i].pc = "arrived"
    /\ \E outcome \in ConcOutcomes :
           LET got    == FetchFor(reqs, reqs[i].file, outcome)
               served == view_file(reqs[i].file, got.outcome)
           IN  reqs' = [reqs EXCEPT ![i] = [pc     |-> "served",
                                            file   |-> reqs[i].file,
                                            answer |-> outcome,
                                            gets   |-> got.gets,
                                            result |-> served.result,
                                            page   |-> served.page]]
    /\ ConcUnchanged

\* the response of request i is sent; nothing of the request is kept
Respond(i) ==
    /\ reqs[i].pc = "served"
    /\ reqs' = [reqs EXCEPT ![i] = NoRequest]
    /\ ConcUnchanged

NextConc ==
    \E i \in Requests :
        \/ Arrive(i)
        \/ Serve(i)
        \/ Respond(i)

SpecConc == Init /\ [][NextConc]_vars

---------------------------------------------------------------------------
(* What the claims speak of.                                               *)

\* a decoder has been invoked and has returned (or raised) `result`
Returned == pc \in {"returned", "done"} /\ call.fn # "none"

ReturnedFrom(fn) == Returned /\ call.fn = fn

IsTable(r) == r.type \in {"table", "delta_table"}

FrameDecoders == {"view_csv", "view_parquet", "view_delta_table"}

\* the input of view_json parsed to an array, of view_xml to a tree
JsonArrayInput ==
    /\ call.content.utf8 /\ call.content.parse = "ok" /\ IsList(call.content.data)

XmlTreeInput == call.content.utf8 /\ call.content.parse = "ok"

\* the elements of a JSON array that are objects, in order
RECURSIVE DictItems(_)
DictItems(items) ==
    IF items = <<>> THEN <<>>
    ELSE (IF IsDict(Head(items)) THEN <<Head(items)>> ELSE <<>>) \o DictItems(Tail(items))

\* the number of records the input of a table-producing call holds
InputRecords ==
    CASE call.fn \in FrameDecoders -> Len(call.content.frame.rows)
      [] call.fn = "view_avro"     -> Len(call.content.records)
      [] call.fn = "view_json"     -> Len(call.content.data.items)
      [] call.fn = "view_xml"      -> Len(call.content.root.children)

\* the call is one the row-cap contract speaks of: a readable tabular file, a
\* JSON array of objects, an XML root whose children all carry one tag
TableCase ==
    /\ Returned
    /\ CASE call.fn \in FrameDecoders -> call.content.parse = "ok"
         [] call.fn = "view_avro"     -> call.content.parse = "ok" /\ call.content.bad = 0
         [] call.fn = "view_json"     -> /\ JsonArrayInput
                                         /\ call.content.data.items # <<>>
                                         /\ \A i \in DOMAIN call.content.data.items :
                                                IsDict(call.content.data.items[i])
         [] call.fn = "view_xml"      -> /\ XmlTreeInput
                                         /\ call.content.root.children # <<>>
                                         /\ \A i \in DOMAIN call.content.root.children :
                                                call.content.root.children[i].tag
                                                    = call.content.root.children[1].tag
         [] OTHER                     -> FALSE

\* C1: for every table-producing decoder and every rowCap >= 0, an input of
\* N <= rowCap records gives truncated = false and total_rows = N, and an input
\* of N > rowCap records gives truncated = true and total_rows = rowCap.
C1_RowCapContract ==
    TableCase =>
        /\ IsTable(result)
        /\ (InputRecords <= call.cap =>
                ~result.truncated /\ result.total_rows = InputRecords)
        /\ (InputRecords > call.cap =>
                result.truncated /\ result.total_rows = call.cap)

\* C2: no decoder raises to its caller: each call returns a result that is not
\* an error, or a result of type 'error' with a non-empty message; content its
\* parser rejects (malformed CSV, malformed JSON) gives type 'error'.
C2_NoDecoderRaises ==
    Returned =>
        /\ ~IsRaise(result)
        /\ (result.type = "error" => ~MessageEmpty(result.message))
        /\ (call.fn \in {"view_csv", "view_json"} /\ call.content.parse # "ok"
                => result.type = "error")

C2_Witness ==
    /\ ReturnedFrom("view_json")
    /\ call.content.utf8
    /\ call.content.parse = "RecursionError"
    /\ call.content.msg = ""
    /\ result.type = "error"

\* C3: when view_json decodes an array of objects, the columns are the keys of
\* all elements of the array, also of those beyond the first rowCap, each
\* once, in ascending lexicographic order.
C3_ColumnsAreSortedUnion ==
    ReturnedFrom("view_json") /\ JsonArrayInput /\ result.type = "table" =>
        LET items == call.content.data.items
            cols  == result.columns
        IN  /\ Range(cols) = UNION {KeysOf(d) : d \in Range(DictItems(items))}
            /\ \A i, j \in DOMAIN cols : i < j => StrLess(cols[i], cols[j])

C3_Witness ==
    /\ ReturnedFrom("view_json") /\ JsonArrayInput /\ result.type = "table"
    /\ result.truncated
    /\ \E k \in Range(result.columns) :
          \A i \in 1..call.cap : k \notin KeysOf(call.content.data.items[i])
    /\ Len(result.columns) = 3

\* the direct children of the root view_xml parsed
RootChildren == call.content.root.children

\* the child has a <name> sub-element; one whose text is not blank
HasNameSub(child) == \E i \in DOMAIN child.subs : child.subs[i].tag = TagName

HasNamedSub(child) ==
    \E i \in DOMAIN child.subs :
        child.subs[i].tag = TagName /\ Strip(child.subs[i].text) # <<>>

AllSameTag(ch) == \A i \in DOMAIN ch : ch[i].tag = ch[1].tag

FirstTenSameTag(ch) == \A i \in 1..Min(10, Len(ch)) : ch[i].tag = ch[1].tag

IsXmlRaw(r, structure) == r.type = "xml_raw" /\ r.xml_info.structure = structure

\* C4, as claimed: children that all carry one tag and each have a <name>
\* sub-element give a table with a column 'name'; children of different tags
\* give 'xml_raw' with structure 'mixed'; no children gives 'xml_raw' with
\* structure 'simple'; the table branch is taken exactly when children exist
\* and the first 10 share the first child's tag.
C4_AsClaimed ==
    ReturnedFrom("view_xml") /\ XmlTreeInput =>
        LET ch == RootChildren IN
        /\ (ch # <<>> /\ AllSameTag(ch) /\ (\A i \in DOMAIN ch : HasNameSub(ch[i]))
                => result.type = "table" /\ TagName \in Range(result.columns))
        /\ (ch # <<>> /\ ~AllSameTag(ch) => IsXmlRaw(result, "mixed"))
        /\ (ch = <<>> => IsXmlRaw(result, "simple"))
        /\ (result.type = "table" <=> ch # <<>> /\ FirstTenSameTag(ch))

\* C4, amended: children that all carry one tag and each have a <name>
\* sub-element with non-blank text give a table with a column 'name'; a child
\* among the first 10 whose tag differs from the first child's gives 'xml_raw'
\* with structure 'mixed'; no children gives 'xml_raw' with structure 'simple';
\* the table branch is taken exactly when children exist and the first 10 (or
\* all, if fewer) share the first child's tag.
C4_Classification ==
    ReturnedFrom("view_xml") /\ XmlTreeInput =>
        LET ch == RootChildren IN
        /\ (ch # <<>> /\ AllSameTag(ch) /\ (\A i \in DOMAIN ch : HasNamedSub(ch[i]))
                => result.type = "table" /\ TagName \in Range(result.columns))
        /\ (ch # <<>> /\ ~FirstTenSameTag(ch) => IsXmlRaw(result, "mixed"))
        /\ (ch = <<>> => IsXmlRaw(result, "simple"))
        /\ (result.type = "table" <=> ch # <<>> /\ FirstTenSameTag(ch))

C4_Witness ==
    /\ ReturnedFrom("view_xml") /\ XmlTreeInput
    /\ Len(RootChildren) = 11
    /\ RootChildren[11].tag # RootChildren[1].tag
    /\ HasNamedSub(RootChildren[1])
    /\ result.type = "table"
    /\ TagName \in Range(result.columns)

\* the decoder the name's extension stands for
DecoderOfExt ==
    (ExtCsv :> "view_csv") @@ (ExtParquet :> "view_parquet") @@ (ExtAvro :> "view_avro")
    @@ (ExtJson :> "view_json") @@ (ExtXml :> "view_xml")

\* C5: the dispatch of view_file is a total function of the lowercased file
\* name: in a request that reaches it (a non-empty name whose storage get
\* succeeded) exactly one decoder is invoked, the one of the extension the
\* lowercased name ends in and the raw decoder for every other name, whatever
\* the fetched bytes are.
C5_DispatchByName ==
    pc = "done" /\ fetch = "ok" =>
        /\ Len(invoked) = 1
        /\ call.fn = invoked[1]
        /\ \A ext \in DOMAIN DecoderOfExt :
              EndsWith(Lower(file), ext) => invoked[1] = DecoderOfExt[ext]
        /\ ((\A ext \in DOMAIN DecoderOfExt : ~EndsWith(Lower(file), ext))
              => invoked[1] = "view_raw")

C5_Witness ==
    /\ pc = "done" /\ fetch = "ok"
    /\ file = <<"d", "/", "B", ".", "C", "S", "V">>
    /\ invoked = <<"view_csv">>
    /\ result.type = "error"

\* what view_raw shows of the content: its first byteCap bytes
RawSlice == Take(call.content, call.cap)

\* C6: view_raw examines at most the first byteCap bytes (a content of the
\* same size with the same first byteCap bytes gives the same result), reports
\* truncated = true exactly when the size exceeds byteCap, and size_bytes is
\* the size of the whole content.
C6_ByteCap ==
    ReturnedFrom("view_raw") =>
        /\ result.type \in {"raw_text", "raw_binary"}
        /\ result.file_info.truncated = (Len(call.content) > call.cap)
        /\ result.file_info.size_bytes = Len(call.content)
        /\ \A other \in {c \in RawContents : /\ Len(c) = Len(call.content)
                                             /\ Take(c, call.cap) = RawSlice} :
              view_raw(other, call.file_path, call.cap) = result

C6_Witness ==
    /\ ReturnedFrom("view_raw")
    /\ Len(call.content) > call.cap
    /\ call.cap > 0
    /\ result.file_info.truncated
    /\ result.file_info.size_bytes = 3

\* C7: view_raw never returns type 'error': text that decodes gives
\* 'raw_text', a slice that fails UTF-8 decoding gives the hex dump 'raw_binary'.
C7_RawNeverError ==
    ReturnedFrom("view_raw") =>
        /\ result.type \in {"raw_text", "raw_binary"}
        /\ (result.type = "raw_binary" <=> IsRaise(decode(RawSlice)))

C7_Witness ==
    /\ ReturnedFrom("view_raw")
    /\ IsRaise(decode(RawSlice))
    /\ result.type = "raw_binary"
    /\ result.file_info.hex_preview_bytes > 0

\* C9: in every result of type 'table' or 'delta_table', total_rows is the
\* number of records placed in data.
C9_TotalRowsCountsData ==
    Returned /\ IsTable(result) => result.total_rows = Len(result.data)

\* the keys one XML child contributes
FieldKeys(child) == {f[1] : f \in Range(ChildFields(child))}

\* C10: in every table result of view_json and view_xml the columns are
\* pairwise distinct and every row has a value for exactly the declared
\* columns, the empty string for a column its source record lacks.
C10_RowsCoverColumns ==
    Returned /\ call.fn \in {"view_json", "view_xml"} /\ result.type = "table" =>
        LET cols == result.columns
            data == result.data
        IN  /\ \A i, j \in DOMAIN cols : cols[i] = cols[j] => i = j
            /\ \A r \in DOMAIN data : DOMAIN data[r] = Range(cols)
            /\ call.fn = "view_json" /\ IsList(call.content.data) =>
                  LET src == DictItems(Take(call.content.data.items, call.cap)) IN
                  \A r \in DOMAIN data : \A c \in Range(cols) :
                      r <= Len(src) /\ c \notin KeysOf(src[r]) => data[r][c] = JStr(<<>>)
            /\ call.fn = "view_xml" =>
                  \A r \in DOMAIN data : \A c \in Range(cols) :
                      c \notin FieldKeys(RootChildren[r]) => data[r][c] = <<>>

C10_Witness ==
    /\ ReturnedFrom("view_json") /\ JsonArrayInput /\ result.type = "table"
    /\ Len(result.columns) = 3
    /\ Len(result.data) = 2
    /\ \E c \in Range(result.columns) : result.data[2][c] = JStr(<<>>)
    /\ \E c \in Range(result.columns) : result.data[2][c] # JStr(<<>>)

\* the fields a result carries
Fields(r) == DOMAIN r

TableTypes == {"table", "delta_table"}
ContentTypes == {"json_raw", "xml_raw", "raw_text", "raw_binary"}

\* C11: every result a decoder returns carries the one payload of its type:
\* 'table' and 'delta_table' have data and columns and neither content nor
\* message; 'json_raw', 'xml_raw', 'raw_text' and 'raw_binary' have content and
\* none of data, columns, message; 'error' has message and none of data,
\* columns, content; there is no other type.
C11_OnePayloadPerType ==
    Returned /\ ~IsRaise(result) =>
        /\ result.type \in TableTypes \cup ContentTypes \cup {"error"}
        /\ (result.type \in TableTypes =>
               /\ {"data", "columns"} \subseteq Fields(result)
               /\ Fields(result) \cap {"content", "message"} = {})
        /\ (result.type \in ContentTypes =>
               /\ "content" \in Fields(result)
               /\ Fields(result) \cap {"data", "columns", "message"} = {})
        /\ (result.type = "error" =>
               /\ "message" \in Fields(result)
               /\ Fields(result) \cap {"data", "columns", "content"} = {})

C11_Witness ==
    /\ ReturnedFrom("view_xml")
    /\ result.type = "error"
    /\ Fields(result) = {"type", "message"}
    /\ call.content.parse = "ParseError"

\* C12: when the storage get fails, get_object_content re-raises, view_file
\* invokes no decoder and does not propagate the exception: it returns a
\* rendered page whose error section is populated (with the exception's text)
\* and whose content section is empty.
C12_GetFailureGivesErrorPage ==
    pc = "done" /\ fetch = "raised" =>
        /\ invoked = <<>>
        /\ call = NoCall
        /\ result = NoResult
        /\ ~IsRaise(page)
        /\ page.error_html # <<>>
        /\ \E i \in DOMAIN page.error_html :
              page.error_html[i] \in {o.msg : o \in {s \in StorageOutcomes : ~s.ok}}
        /\ page.content_html = ""

C12_Witness ==
    /\ pc = "done" /\ fetch = "raised"
    /\ file = <<"a", ".", "c", "s", "v">>
    /\ invoked = <<>>
    /\ page.error_html = <<"<div class=\"error\">", "NoSuchKey", "</div>">>

\* the fields of a delta_table result that depend on the row cap: the rows,
\* their count, the flag, and the cap itself as the result echoes it
CapFields == {"data", "total_rows", "truncated", "max_rows"}

\* C13: for one snapshot the metadata view_delta_table reports (version = the
\* snapshot's latest committed version, files = its number of data files,
\* schema) is the same for every rowCap; beside the echoed cap only data,
\* total_rows and truncated vary with rowCap.
C13_MetadataIndependentOfCap ==
    ReturnedFrom("view_delta_table") /\ result.type = "delta_table" =>
        /\ result.metadata.version = call.content.version
        /\ result.metadata.files = call.content.files
        /\ \A r \in RowCaps :
              LET other == view_delta_table(call.content, r) IN
              /\ other.type = "delta_table"
              /\ other.metadata = result.metadata
              /\ Fields(other) = Fields(result)
              /\ \A f \in Fields(result) \ CapFields : other[f] = result[f]

C13_Witness ==
    /\ ReturnedFrom("view_delta_table") /\ result.type = "delta_table"
    /\ result.truncated
    /\ call.cap = 1
    /\ result.metadata.version = 2
    /\ result.metadata.files = 2
    /\ view_delta_table(call.content, 0).data # result.data

C15_AvroStopsAtCap ==
    ReturnedFrom("view_avro") /\ result.type = "table" =>
        LET N == Len(call.content.records) IN
        /\ Len(result.data) <= call.cap
        /\ result.data = Take(call.content.records, call.cap)
        /\ result.truncated = (Len(result.data) = call.cap)
        /\ (N = call.cap => result.truncated /\ Len(result.data) = N)

C15_Witness ==
    /\ ReturnedFrom("view_avro") /\ result.type = "table"
    /\ Len(call.content.records) = 2
    /\ call.cap = 2
    /\ result.truncated
    /\ result.data = call.content.records

\* the array consists solely of objects (and holds at least one)
SolelyObjects(items) == items # <<>> /\ \A i \in DOMAIN items : IsDict(items[i])

\* C16: a top-level array that is empty, holds no objects, or mixes objects
\* with non-objects in any order gives 'json_raw' carrying the whole array
\* re-serialized, with size = the array's length; only an array consisting
\* solely of objects takes the table branch.
C16_OnlyObjectArraysAreTables ==
    ReturnedFrom("view_json") /\ JsonArrayInput =>
        LET items == call.content.data.items IN
        /\ (result.type = "table" <=> SolelyObjects(items))
        /\ (~SolelyObjects(items) =>
               /\ result.type = "json_raw"
               /\ result.content = Dumps(call.content.data)
               /\ result.size = Len(items))

\* the input of view_json parsed to a single object
JsonObjectInput ==
    /\ call.content.utf8 /\ call.content.parse = "ok" /\ IsDict(call.content.data)

\* C17: a top-level object of K keys gives a table with the columns
\* ['key', 'value'] and one row per key, in source order, for the first
\* min(K, rowCap) keys; truncated = (K > rowCap), total_rows = min(K, rowCap),
\* and raw_json is the serialization of the whole object whatever rowCap is.
C17_ObjectIsKeyValueTable ==
    ReturnedFrom("view_json") /\ JsonObjectInput =>
        LET items == call.content.data.items
            K     == Len(items)
        IN  /\ result.type = "table"
            /\ result.columns = <<StrKey, StrValue>>
            /\ Len(result.data) = Min(K, call.cap)
            /\ \A i \in DOMAIN result.data :
                  /\ DOMAIN result.data[i] = {StrKey, StrValue}
                  /\ result.data[i][StrKey] = items[i].k
            /\ result.truncated = (K > call.cap)
            /\ result.total_rows = Min(K, call.cap)
            /\ result.raw_json = Dumps(call.content.data)
            /\ \A r \in RowCaps :
                  view_json(call.content, r).raw_json = result.raw_json

C17_Witness ==
    /\ ReturnedFrom("view_json") /\ JsonObjectInput
    /\ Len(call.content.data.items) = 2
    /\ call.cap = 1
    /\ result.truncated
    /\ result.total_rows = 1
    /\ result.data[1][StrKey] = call.content.data.items[1].k
    /\ StrLess(call.content.data.items[2].k, call.content.data.items[1].k)

\* the children the column pass reads: the first min(50, n)
SampledChildren == Take(RootChildren, Min(50, Len(RootChildren)))

\* the column names the claim lists for one child: '@attr' of its attributes,
\* the tag of each sub-element with text, 'subtag@attr' of their attributes
ClaimedKeys(child) ==
    {<<"@">> \o child.attrib[i].k : i \in DOMAIN child.attrib}
    \cup {child.subs[j].tag : j \in {x \in DOMAIN child.subs : Strip(child.subs[x].text) # <<>>}}
    \cup UNION {{child.subs[j].tag \o <<"@">> \o child.subs[j].attrib[i].k :
                    i \in DOMAIN child.subs[j].attrib} : j \in DOMAIN child.subs}

\* and, as the code has it, '_text' for a child with text of its own
OwnTextKey(child) == IF Strip(child.text) # <<>> THEN {StrText} ELSE {}

StrictlySorted(cols) == \A i, j \in DOMAIN cols : i < j => StrLess(cols[i], cols[j])

XmlTableResult == ReturnedFrom("view_xml") /\ XmlTreeInput /\ result.type = "table"

\* C18, as claimed: the columns of an XML table are exactly the sorted union,
\* over the first min(50, n) children only, of '@attr' for each attribute, the
\* tag of each sub-element with non-empty text and 'subtag@attr' for each
\* attribute of a sub-element; no other column name appears.
C18_AsClaimed ==
    XmlTableResult =>
        /\ StrictlySorted(result.columns)
        /\ Range(result.columns)
             = UNION {ClaimedKeys(SampledChildren[i]) : i \in DOMAIN SampledChildren}

\* C18, amended: the columns are exactly the sorted union, over the first
\* min(50, n) children only, of '@attr', the tag of each sub-element with
\* non-blank text, 'subtag@attr', and '_text' for a child whose own text is
\* not blank; no other column name appears.
C18_SampledColumns ==
    XmlTableResult =>
        /\ StrictlySorted(result.columns)
        /\ Range(result.columns)
             = UNION {ClaimedKeys(SampledChildren[i]) \cup OwnTextKey(SampledChildren[i]) :
                         i \in DOMAIN SampledChildren}

C18_Witness ==
    /\ XmlTableResult
    /\ Len(RootChildren) = 51
    /\ call.cap = 1000
    /\ StrText \in Range(result.columns)
    /\ Len(result.columns) = 3
    /\ \E k \in ClaimedKeys(RootChildren[51]) : k \notin Range(result.columns)

\* the value the row of `child` shows under column c: the last value the
\* child's fields give to c, or the empty string
ShownValue(child, c) ==
    LET fields == ChildFields(child)
        at == {i \in DOMAIN fields : fields[i][1] = c}
    IN  IF at = {} THEN <<>>
        ELSE fields[CHOOSE i \in at : \A j \in at : j <= i][2]

\* C19: the row pass of the XML table branch covers the first rowCap children,
\* whatever the 50-child column sample was: every row has a value for exactly
\* the discovered columns, the child's own value or the empty string, so a
\* field that first appears after the 50th child gives no column and no value;
\* truncated = (total children > rowCap) and xml_info.total_elements is the
\* total number of children whatever rowCap is.
C19_RowsOfFirstCapChildren ==
    XmlTableResult =>
        LET ch   == RootChildren
            cols == Range(result.columns)
        IN  /\ Len(result.data) = Min(Len(ch), call.cap)
            /\ \A r \in DOMAIN result.data :
                  /\ DOMAIN result.data[r] = cols
                  /\ \A c \in cols : result.data[r][c] = ShownValue(ch[r], c)
            /\ \A i \in DOMAIN ch : \A k \in FieldKeys(ch[i]) :
                  (i > 50 /\ \A j \in 1..50 : k \notin FieldKeys(ch[j]))
                      => /\ k \notin cols
                         /\ \A r \in DOMAIN result.data : k \notin DOMAIN result.data[r]
            /\ result.truncated = (Len(ch) > call.cap)
            /\ result.xml_info.total_elements = Len(ch)

C19_Witness ==
    /\ XmlTableResult
    /\ Len(RootChildren) = 51
    /\ call.cap = 51
    /\ Len(result.data) = 51
    /\ ~result.truncated
    /\ result.columns # <<>>
    /\ \E k \in FieldKeys(RootChildren[51]) : k \notin Range(result.columns)
    /\ \A c \in Range(result.columns) : result.data[51][c] = <<>>

\* the hex digit of value v
Digit(v) == HexDigits[v + 1]

\* the characters of dump line k (from 0) of `text`, every line before it
\* being a full one: 8 + 2 + 48 + 2 + 16 + 1 characters and the line break
FullLine == 8 + 2 + 48 + 2 + 16 + 1

\* line k of the dump `text` shows the m bytes of `slice` from offset 16 * k:
\* the offset as 8 hex digits, two spaces, a hex field of 48 characters (two
\* digits and a space per byte, spaces after the last), ' |', the gutter, '|'
LineShows(text, k, slice, m) ==
    LET base == (FullLine + 1) * k
        byte(j) == slice[16 * k + j + 1]
    IN  /\ \A d \in 1..8 : text[base + d] = Digit(((16 * k) \div (16 ^ (8 - d))) % 16)
        /\ text[base + 9] = " " /\ text[base + 10] = " "
        /\ \A j \in 0..(m - 1) :
              /\ text[base + 11 + 3 * j] = Digit(byte(j) \div 16)
              /\ text[base + 12 + 3 * j] = Digit(byte(j) % 16)
        /\ \A p \in 1..48 :
              (p % 3 = 0 \/ p > 3 * m) => text[base + 10 + p] = " "
        /\ text[base + 59] = " " /\ text[base + 60] = "|"
        /\ \A j \in 0..(m - 1) :
              /\ (byte(j) < 32 \/ byte(j) > 126) => text[base + 61 + j] = "."
              /\ (32 <= byte(j) /\ byte(j) <= 126) => text[base + 61 + j] = Printable[byte(j) - 31]
        /\ text[base + 61 + m] = "|"

\* C20: when the byte-capped slice is not valid UTF-8, view_raw renders the
\* first n = min(len(slice), 1024) bytes only, as ceil(n / 16) lines: line k
\* starts with the offset 16 * k as 8 hex digits and covers the bytes
\* 16 * k .. 16 * k + 15, its hex field is 48 characters wide, a byte outside
\* 0x20..0x7E shows as '.' in the ASCII gutter; hex_preview_bytes = n.
C20_HexDump ==
    ReturnedFrom("view_raw") /\ IsRaise(decode(RawSlice)) =>
        LET n     == Min(Len(RawSlice), 1024)
            count == (n + 15) \div 16
            text  == result.content
        IN  /\ result.type = "raw_binary"
            /\ result.file_info.hex_preview_bytes = n
            /\ Cardinality({p \in DOMAIN text : text[p] = "\n"}) = count - 1
            /\ Len(text) = (FullLine + 1) * (count - 1) + (FullLine - 16) + (n - 16 * (count - 1))
            /\ \A k \in 0..(count - 1) :
                  /\ LineShows(text, k, RawSlice, Min(16, n - 16 * k))
                  /\ k < count - 1 => text[(FullLine + 1) * (k + 1)] = "\n"

C20_Witness ==
    /\ ReturnedFrom("view_raw") /\ IsRaise(decode(RawSlice))
    /\ Len(call.content) = 1040
    /\ Len(RawSlice) = 1025
    /\ result.type = "raw_binary"
    /\ result.file_info.hex_preview_bytes = 1024
    /\ Len(result.content) = 64 * 78 - 1
    /\ result.file_info.truncated

\* the text of the slice view_raw decoded
DecodedText == decode(RawSlice).text

\* C21: for a slice that decodes, view_raw sets content_type by marker
\* priority: 'html' if the text holds '<html' in any case, else 'xml' if it
\* holds '<?xml' in any case, else 'code' if it holds a language keyword
\* ('def ', 'class ', 'import ', 'function'), else 'text'; whatever the
\* content_type, the type is 'raw_text' and content is the decoded text.
C21_ContentTypePriority ==
    ReturnedFrom("view_raw") /\ ~IsRaise(decode(RawSlice)) =>
        /\ result.type = "raw_text"
        /\ result.content = DecodedText
        /\ result.file_info.content_type =
              IF Contains(LowerText(DecodedText), KwHtml) THEN "html"
              ELSE IF Contains(LowerText(DecodedText), KwXml) THEN "xml"
              ELSE IF \E kw \in {KwDef, KwClass, KwImport, KwFunction} :
                          Contains(DecodedText, kw)
                   THEN "code"
              ELSE "text"

\* C22: a content whose whole byte string is valid UTF-8 gives type
\* 'raw_text', never the hex dump, for every byteCap, also when the content is
\* longer than byteCap and the cap falls inside a multi-byte character.
C22_ValidTextIsNeverBinary ==
    ReturnedFrom("view_raw") /\ ~IsRaise(decode(call.content)) =>
        result.type = "raw_text"

===========================================================================
